---- MODULE Spec2Model ----
(***************************************************************************)
(* State-machine model of four view components of matrix-react-sdk:        *)
(*   RoomDirectory              (src/unnamed/part_000)                      *)
(*   VideoFeed, SpaceCreateMenu (src/src/components/views/voip/VideoFeed.tsx)*)
(*   LeftPanelLiveShareWarning  (src/src/components/views/beacon/...)       *)
(* JavaScript values that are "a string, null or undefined" are modelled   *)
(* as TLA+ strings, with Null and Undefined two reserved strings.  Text    *)
(* that the code inspects character by character (the search filter, the   *)
(* space name and alias) is modelled as a sequence of one-character        *)
(* strings.                                                                *)
(***************************************************************************)
EXTENDS Integers, Sequences, FiniteSets, Bags, TLC

VARIABLES
    \* ---- RoomDirectory: React state (IState)
    publicRooms, loading, protocolsLoading, error, instanceId, roomServer, filterString,
    \* ---- RoomDirectory: private fields
    unmounted, nextBatch, filterTimeout,
    \* ---- RoomDirectory: environment (client, browser timers, localStorage, promises)
    hasClient, didMount, protocolsPending, localStorage,
    timers, inflight, sent, lastResult, lastOption, removalPending

rdVars == <<publicRooms, loading, protocolsLoading, error, instanceId, roomServer,
            filterString, unmounted, nextBatch, filterTimeout, hasClient, didMount,
            protocolsPending, localStorage, timers, inflight, sent,
            lastResult, lastOption, removalPending>>


(***************************************************************************)
(* Bounds of the model.                                                    *)
(***************************************************************************)
\* publicRooms() calls the component sends in one run
MaxRequests == 2
\* timers armed at one time (the code keeps at most one)
MaxTimers == 2

(***************************************************************************)
(* JavaScript values.                                                      *)
(***************************************************************************)
Null == "<null>"
Undefined == "<undefined>"

\* ToBoolean of a string-or-null-or-undefined value
Truthy(v) == v \notin {Null, Undefined, ""}

\* a != b on string-or-null-or-undefined values: null == undefined
LooseNeq(a, b) ==
    IF a \in {Null, Undefined} /\ b \in {Null, Undefined} THEN FALSE ELSE a # b

\* String(v), as localStorage.setItem applies it to the value it is given
ToStr(v) == IF v = Undefined THEN "undefined" ELSE IF v = Null THEN "null" ELSE v

(***************************************************************************)
(* Text as sequences of characters.                                        *)
(***************************************************************************)
NullText == <<"<null>">>

RECURSIVE TrimStart(_)
TrimStart(s) == IF s # <<>> /\ Head(s) = " " THEN TrimStart(Tail(s)) ELSE s

RECURSIVE TrimEnd(_)
TrimEnd(s) ==
    IF s # <<>> /\ s[Len(s)] = " " THEN TrimEnd(SubSeq(s, 1, Len(s) - 1)) ELSE s

Trim(s) == TrimEnd(TrimStart(s))

(***************************************************************************)
(* RoomDirectory                                                           *)
(***************************************************************************)
LAST_SERVER_KEY == "mx_last_room_directory_server"
LAST_INSTANCE_KEY == "mx_last_room_directory_instance"
ALL_ROOMS == "_all"

\* MatrixClientPeg.getHomeserverName()
MyHomeserver == "hs.org"
\* SdkConfig room_directory.servers / the room_directory_servers setting
ConfigServers == {"other.org"}
\* instance ids of the protocols getThirdpartyProtocols() answers with
ProtocolInstances == {"irc"}

\* what the dropdown can hand to onOptionChange
OptionServers == {MyHomeserver, "other.org"}
OptionInstances == {Undefined, ALL_ROOMS}
\* what the search box can hand to onFilterChange
FilterInputs == {NullText, <<" ">>, <<" ", "a", " ">>}
\* props.initialText
InitialTexts == {NullText, <<"a">>}

\* the opaque pagination token the server gives for the page after page n
Token(n) == "t" \o ToString(n)
\* the page a request with this since token asks for (no token: the first page)
PageOf(since) ==
    IF ~Truthy(since) THEN 1
    ELSE 1 + (CHOOSE n \in 1..MaxRequests : Token(n) = since)

PublicRoomsFailed == "%(brand)s failed to get the public room list."
HomeserverUnavailable == "The homeserver may be unavailable or overloaded."
ProtocolsFailed == "%(brand)s failed to get the protocol list from the homeserver. The homeserver may be too old to support third party networks."
\* the values publicRooms() can reject with: err.message absent or present, or no err at all
ErrorValues == {[isNullish |-> TRUE, message |-> Undefined],
                [isNullish |-> FALSE, message |-> Undefined],
                [isNullish |-> FALSE, message |-> "M_LIMIT_EXCEEDED"]}

\* this.filterTimeout before any timer was set (undefined, line 78) and after the
\* timer fired (null, line 351); a handle setTimeout returned is a positive number
TimeoutUndefined == 0
TimeoutNull == -1

\* what the promise of the last getMoreRooms / onFillRequest call to settle
\* resolved to, and the return statement that decided it
NoResult == [value |-> "none", site |-> "none"]
Result(value, site) == [value |-> value, site |-> site]

\* the arguments of the last onOptionChange call
NoOption == [server |-> "none", instanceId |-> "none"]

\* the state the constructor leaves, lines 81-152
InitRoomDirectory ==
    /\ hasClient \in BOOLEAN
    /\ \E s \in {Null, "other.org"}, i \in {Null, "irc"} :
           localStorage = (LAST_SERVER_KEY :> s) @@ (LAST_INSTANCE_KEY :> i)
    /\ \E t \in InitialTexts : filterString = IF t = NullText THEN <<>> ELSE t
    /\ publicRooms = <<>>
    /\ loading = TRUE
    /\ error = Null
    /\ instanceId = localStorage[LAST_INSTANCE_KEY]
    /\ roomServer = localStorage[LAST_SERVER_KEY]
    /\ protocolsLoading = hasClient
    /\ protocolsPending = hasClient
    /\ unmounted = FALSE
    /\ nextBatch = Null
    /\ filterTimeout = TimeoutUndefined
    /\ didMount = FALSE
    /\ timers = {}
    /\ inflight = EmptyBag
    /\ sent = 0
    /\ lastResult = NoResult
    /\ lastOption = NoOption
    /\ removalPending = FALSE

\* the options getMoreRooms builds for publicRooms(), lines 186-196
MakeOpts(fs, rs, inst, nb) ==
    [limit |-> 20,
     server |-> IF LooseNeq(rs, MyHomeserver) THEN rs ELSE Undefined,
     include_all_networks |-> (inst = ALL_ROOMS),
     third_party_instance_id |->
         IF inst # ALL_ROOMS /\ Truthy(inst) THEN inst ELSE Undefined,
     since |-> IF Truthy(nb) THEN nb ELSE Undefined,
     filter |-> IF fs # <<>> THEN fs ELSE NullText]

\* a publicRooms() call in flight, with what its callbacks captured, lines 181-185
MakeRequest(fs, rs, inst, nb) ==
    [filterString |-> fs, roomServer |-> rs, nextBatch |-> nb,
     opts |-> MakeOpts(fs, rs, inst, nb)]

\* getMoreRooms up to the point where the request goes out, lines 174-197.
\* fs, rs, inst, nb: the state and token it reads; ld: loading as the caller left it.
GetMoreRooms(fs, rs, inst, nb, ld) ==
    IF ~hasClient
    THEN /\ loading' = ld
         /\ UNCHANGED <<inflight, sent>>
    ELSE /\ loading' = (IF unmounted THEN loading ELSE TRUE)
         /\ inflight' = inflight (+) SetToBag({MakeRequest(fs, rs, inst, nb)})
         /\ sent' = sent + 1

\* refreshRoomList, lines 165-172, reading state as the caller left it
RefreshRoomList(fs, rs, inst) ==
    /\ nextBatch' = Null
    /\ publicRooms' = (IF unmounted THEN publicRooms ELSE <<>>)
    /\ GetMoreRooms(fs, rs, inst, Null, IF unmounted THEN loading ELSE TRUE)

CanSend == sent < MaxRequests

\* componentDidMount, lines 154-156
ComponentDidMount ==
    /\ ~didMount
    /\ didMount' = TRUE
    /\ RefreshRoomList(filterString, roomServer, instanceId)
    /\ UNCHANGED <<protocolsLoading, error, instanceId, roomServer, filterString,
                   unmounted, filterTimeout, hasClient, protocolsPending, localStorage,
                   timers, lastResult, removalPending, lastOption>>

\* clearTimeout(this.filterTimeout) when the handle is set, lines 159-161, 347-349
\* and 362-364: the timers left armed
ClearFilterTimeout ==
    IF filterTimeout > 0 THEN {t \in timers : t.id # filterTimeout} ELSE timers

\* componentWillUnmount, lines 158-163
ComponentWillUnmount ==
    /\ didMount /\ ~unmounted
    /\ timers' = ClearFilterTimeout
    /\ unmounted' = TRUE
    /\ UNCHANGED <<publicRooms, loading, protocolsLoading, error, instanceId, roomServer,
                   filterString, nextBatch, filterTimeout, hasClient, didMount,
                   protocolsPending, localStorage, inflight, sent, lastResult,
                   removalPending, lastOption>>

\* the server and instance the constructor validates from localStorage, lines 91-109
ValidatedServer ==
    IF localStorage[LAST_SERVER_KEY] \in ConfigServers
    THEN localStorage[LAST_SERVER_KEY] ELSE MyHomeserver

ValidatedInstance ==
    IF /\ ValidatedServer = MyHomeserver
       /\ localStorage[LAST_INSTANCE_KEY] \in ({ALL_ROOMS} \cup ProtocolInstances)
    THEN localStorage[LAST_INSTANCE_KEY] ELSE Null

\* getThirdpartyProtocols() resolves, lines 89-121
ProtocolsResolved ==
    /\ didMount /\ protocolsPending
    /\ protocolsPending' = FALSE
    /\ protocolsLoading' = (IF unmounted THEN protocolsLoading ELSE FALSE)
    /\ IF instanceId # ValidatedInstance \/ roomServer # ValidatedServer
       THEN /\ CanSend
            /\ instanceId' = (IF unmounted THEN instanceId ELSE ValidatedInstance)
            /\ roomServer' = (IF unmounted THEN roomServer ELSE ValidatedServer)
            /\ RefreshRoomList(filterString, roomServer', instanceId')
       ELSE UNCHANGED <<instanceId, roomServer, nextBatch, publicRooms, loading,
                        inflight, sent>>
    /\ UNCHANGED <<error, filterString, unmounted, filterTimeout, hasClient, didMount,
                   localStorage, timers, lastResult, removalPending, lastOption>>

\* getThirdpartyProtocols() rejects, lines 122-140; guest: MatrixClientPeg.get().isGuest()
ProtocolsRejected(guest) ==
    /\ didMount /\ protocolsPending
    /\ protocolsPending' = FALSE
    /\ protocolsLoading' = (IF unmounted THEN protocolsLoading ELSE FALSE)
    /\ error' = (IF unmounted \/ guest THEN error ELSE ProtocolsFailed)
    /\ UNCHANGED <<publicRooms, loading, instanceId, roomServer, filterString, unmounted,
                   nextBatch, filterTimeout, hasClient, didMount, localStorage, timers,
                   inflight, sent, lastResult, removalPending, lastOption>>

\* the header (search box, network dropdown) is rendered, lines 675-728
HeaderRendered == didMount /\ ~unmounted /\ ~protocolsLoading

\* the scroll panel with the room list is rendered, lines 618-673
ListRendered == didMount /\ ~unmounted /\ ~protocolsLoading /\ ~Truthy(error)

\* localStorage.setItem / removeItem (getItem answers null for a missing key)
SetItem(ls, k, v) == [ls EXCEPT ![k] = ToStr(v)]
RemoveItem(ls, k) == [ls EXCEPT ![k] = Null]

\* StoreSelection without the guard on instanceId
StoreSelection_Unguarded(ls, server, inst) ==
    SetItem(SetItem(ls, LAST_SERVER_KEY, server), LAST_INSTANCE_KEY, inst)

\* what onOptionChange leaves in localStorage, lines 323-329
StoreSelection(ls, server, inst) ==
    IF Truthy(inst)
    THEN SetItem(SetItem(ls, LAST_SERVER_KEY, server), LAST_INSTANCE_KEY, inst)
    ELSE RemoveItem(SetItem(ls, LAST_SERVER_KEY, server), LAST_INSTANCE_KEY)

\* onOptionChange, lines 304-330: setState, then refreshRoomList as its callback
OnOptionChange(server, inst) ==
    /\ HeaderRendered /\ CanSend
    /\ roomServer' = server
    /\ instanceId' = inst
    /\ error' = Null
    /\ RefreshRoomList(filterString, server, inst)
    /\ localStorage' = StoreSelection(localStorage, server, inst)
    /\ lastOption' = [server |-> server, instanceId |-> inst]
    /\ UNCHANGED <<protocolsLoading, filterString, unmounted, filterTimeout, hasClient,
                   didMount, protocolsPending, timers, lastResult, removalPending>>

\* OnFillRequest without the test on the direction of the fill
OnFillRequest_AnyDirection(backwards) ==
    /\ ListRendered
    /\ IF ~Truthy(nextBatch)
       THEN /\ lastResult' = Result("false", "fill")
            /\ UNCHANGED <<loading, inflight, sent>>
       ELSE /\ CanSend
            /\ UNCHANGED lastResult
            /\ GetMoreRooms(filterString, roomServer, instanceId, nextBatch, loading)
    /\ UNCHANGED <<publicRooms, protocolsLoading, error, instanceId, roomServer,
                   filterString, unmounted, nextBatch, filterTimeout, hasClient, didMount,
                   protocolsPending, localStorage, timers, removalPending, lastOption>>

\* onFillRequest, lines 332-336
OnFillRequest(backwards) ==
    /\ ListRendered
    /\ IF backwards \/ ~Truthy(nextBatch)
       THEN /\ lastResult' = Result("false", "fill")
            /\ UNCHANGED <<loading, inflight, sent>>
       ELSE /\ CanSend
            /\ UNCHANGED lastResult
            /\ GetMoreRooms(filterString, roomServer, instanceId, nextBatch, loading)
    /\ UNCHANGED <<publicRooms, protocolsLoading, error, instanceId, roomServer,
                   filterString, unmounted, nextBatch, filterTimeout, hasClient, didMount,
                   protocolsPending, localStorage, timers, removalPending, lastOption>>

\* alias?.trim() || "", line 340
FilterOf(alias) == IF alias = NullText THEN <<>> ELSE Trim(alias)

\* the handle setTimeout returns: the least one that names no armed timer and is
\* not the handle the component still holds
NewTimerId(armed) ==
    CHOOSE i \in 1..(MaxTimers + 1) :
        /\ i # filterTimeout
        /\ \A t \in armed : t.id # i
        /\ \A j \in 1..(i - 1) : j = filterTimeout \/ \E t \in armed : t.id = j

\* ArmFilterTimeout without the clearTimeout of the pending timer
ArmFilterTimeout_NoClear(id, fs) == timers \cup {[id |-> id, armedWith |-> fs]}

\* the timers armed after onFilterChange, lines 347-353: the old one cleared, a
\* new one set.  armedWith records the filter the call has just set.
ArmFilterTimeout(id, fs) == ClearFilterTimeout \cup {[id |-> id, armedWith |-> fs]}

\* onFilterChange, lines 338-354
OnFilterChange(alias) ==
    /\ HeaderRendered /\ Cardinality(timers) < MaxTimers
    /\ filterString' = FilterOf(alias)
    /\ filterTimeout' = NewTimerId(timers)
    /\ timers' = ArmFilterTimeout(filterTimeout', filterString')
    /\ UNCHANGED <<publicRooms, loading, protocolsLoading, error, instanceId, roomServer,
                   unmounted, nextBatch, hasClient, didMount, protocolsPending,
                   localStorage, inflight, sent, lastResult, removalPending, lastOption>>

\* the 700 ms timer's callback, lines 350-353
FilterTimerFires(t) ==
    /\ t \in timers /\ CanSend
    /\ timers' = timers \ {t}
    /\ filterTimeout' = TimeoutNull
    /\ RefreshRoomList(filterString, roomServer, instanceId)
    /\ UNCHANGED <<protocolsLoading, error, instanceId, roomServer, filterString,
                   unmounted, hasClient, didMount, protocolsPending, localStorage,
                   lastResult, removalPending, lastOption>>

\* onFilterClear, lines 356-365
OnFilterClear ==
    /\ HeaderRendered /\ CanSend
    /\ filterString' = <<>>
    /\ RefreshRoomList(<<>>, roomServer, instanceId)
    /\ timers' = ClearFilterTimeout
    /\ UNCHANGED <<protocolsLoading, error, instanceId, roomServer, unmounted,
                   filterTimeout, hasClient, didMount, protocolsPending, localStorage,
                   lastResult, removalPending, lastOption>>

\* onRoomClicked with shift: removeFromDirectory is started, lines 254-302
OnRoomShiftClicked ==
    /\ ListRendered /\ publicRooms # <<>> /\ ~removalPending
    /\ removalPending' = TRUE
    /\ UNCHANGED <<publicRooms, loading, protocolsLoading, error, instanceId, roomServer,
                   filterString, unmounted, nextBatch, filterTimeout, hasClient, didMount,
                   protocolsPending, localStorage, timers, inflight, sent, lastResult, lastOption>>

\* removeFromDirectory's promise settles either way: refreshRoomList, lines 278-284
RemovalFinished ==
    /\ removalPending /\ CanSend
    /\ removalPending' = FALSE
    /\ RefreshRoomList(filterString, roomServer, instanceId)
    /\ UNCHANGED <<protocolsLoading, error, instanceId, roomServer, filterString,
                   unmounted, filterTimeout, hasClient, didMount, protocolsPending,
                   localStorage, timers, lastResult, lastOption>>

\* IsStale without the comparison of the batch token
IsStale_NoTokenCheck(r) ==
    \/ r.filterString # filterString
    \/ LooseNeq(r.roomServer, roomServer)

\* the test both callbacks start with, lines 198-201 and 221-224
IsStale(r) ==
    \/ r.filterString # filterString
    \/ LooseNeq(r.roomServer, roomServer)
    \/ LooseNeq(r.nextBatch, nextBatch)

\* the room a page's chunk holds, named by the request the page answers
RoomOf(r) == [filterString |-> r.filterString, roomServer |-> r.roomServer, opts |-> r.opts]

\* data.chunk || [], line 216
ChunkOf(r, hasChunk) == IF hasChunk THEN <<RoomOf(r)>> ELSE <<>>

\* data.next_batch: the token for the page after the one asked for, or none
NextBatchOf(r, hasNext) == IF hasNext THEN Token(PageOf(r.opts.since)) ELSE Undefined

\* publicRooms() resolves, lines 197-219
PublicRoomsResolved(r, hasChunk, hasNext) ==
    /\ r \in BagToSet(inflight)
    /\ inflight' = inflight (-) SetToBag({r})
    /\ IF IsStale(r) \/ unmounted
       THEN /\ lastResult' = Result("false", IF IsStale(r) THEN "stale" ELSE "unmounted")
            /\ UNCHANGED <<nextBatch, publicRooms, loading>>
       ELSE /\ nextBatch' = NextBatchOf(r, hasNext)
            /\ publicRooms' = publicRooms \o ChunkOf(r, hasChunk)
            /\ loading' = FALSE
            /\ lastResult' =
                   Result(IF Truthy(NextBatchOf(r, hasNext)) THEN "true" ELSE "false", "applied")
    /\ UNCHANGED <<protocolsLoading, error, instanceId, roomServer, filterString,
                   unmounted, filterTimeout, hasClient, didMount, protocolsPending,
                   localStorage, timers, sent, removalPending, lastOption>>

\* the error text of lines 239-242, with the precedence JavaScript gives it:
\* (_t(...) + (err && err.message)) ? err.message : _t(...)
ErrorTextOf(err) ==
    IF Truthy(PublicRoomsFailed \o ToStr(err.message))
    THEN err.message ELSE HomeserverUnavailable

\* publicRooms() rejects, lines 220-244.  For a null or undefined err the
\* expression reads err.message and throws before setState is called.
PublicRoomsRejected(r, err) ==
    /\ r \in BagToSet(inflight)
    /\ inflight' = inflight (-) SetToBag({r})
    /\ IF IsStale(r) \/ unmounted
       THEN /\ lastResult' = Result("false", IF IsStale(r) THEN "stale" ELSE "unmounted")
            /\ UNCHANGED <<loading, error>>
       ELSE IF err.isNullish
       THEN /\ lastResult' = Result("rejected", "threw")
            /\ UNCHANGED <<loading, error>>
       ELSE /\ loading' = FALSE
            /\ error' = ErrorTextOf(err)
            /\ lastResult' = Result("undefined", "failed")
    /\ UNCHANGED <<publicRooms, protocolsLoading, instanceId, roomServer, filterString,
                   unmounted, nextBatch, filterTimeout, hasClient, didMount,
                   protocolsPending, localStorage, timers, sent, removalPending, lastOption>>

(***************************************************************************)
(* VideoFeed  (src/src/components/views/voip/VideoFeed.tsx, lines 52-241)  *)
(***************************************************************************)
VARIABLES
    vfPhase,      \* "absent", "constructed", "mounted" or "unmounted"
    vfFeed,       \* this.props.feed
    vfState,      \* this.state: [audioMuted, videoMuted]
    vfListeners,  \* per feed and event, how often the component's handler is registered
    vfMeasuring,  \* per feed, the last argument of measureVolumeActivity
    vfFeedMuted,  \* per feed, what isAudioMuted() and isVideoMuted() return
    vfPurpose,    \* per feed, feed.purpose
    vfElement     \* the <video> element: [srcObject, paused]

vfVars == <<vfPhase, vfFeed, vfState, vfListeners, vfMeasuring, vfFeedMuted, vfPurpose,
            vfElement>>

\* the CallFeed objects a parent may pass as props.feed
Feeds == {"feed1", "feed2"}
Usermedia == "m.usermedia"
Screenshare == "m.screenshare"
NewStream == "new_stream"
MuteStateChanged == "mute_state_changed"
NoListeners == [f \in Feeds |-> (NewStream :> 0) @@ (MuteStateChanged :> 0)]
Unmuted == [audioMuted |-> FALSE, videoMuted |-> FALSE]

\* the state after the constructor, lines 55-62
InitVideoFeed ==
    /\ vfPhase = "constructed"
    /\ vfFeed \in Feeds
    /\ vfPurpose \in [Feeds -> {Usermedia, Screenshare}]
    /\ vfFeedMuted = [f \in Feeds |-> Unmuted]
    /\ vfState = vfFeedMuted[vfFeed]
    /\ vfListeners = NoListeners
    /\ vfMeasuring = [f \in Feeds |-> FALSE]
    /\ vfElement = [srcObject |-> Null, paused |-> TRUE]

\* no VideoFeed has been constructed
VideoFeedAbsent ==
    /\ vfPhase = "absent"
    /\ vfFeed = "feed1"
    /\ vfPurpose = [f \in Feeds |-> Usermedia]
    /\ vfFeedMuted = [f \in Feeds |-> Unmuted]
    /\ vfState = Unmuted
    /\ vfListeners = NoListeners
    /\ vfMeasuring = [f \in Feeds |-> FALSE]
    /\ vfElement = [srcObject |-> Null, paused |-> TRUE]

\* EventEmitter.addListener: one more registration of the handler
AddListener(ls, f, ev) == [ls EXCEPT ![f][ev] = @ + 1]
\* EventEmitter.removeListener: one registration less, if there is one
RemoveListener(ls, f, ev) == [ls EXCEPT ![f][ev] = IF @ > 0 THEN @ - 1 ELSE 0]

\* feed.measureVolumeActivity(on) when feed is a user-media feed, lines 107-109, 115-117
MeasureVolume(ms, f, on) == IF vfPurpose[f] = Usermedia THEN [ms EXCEPT ![f] = on] ELSE ms

\* the element after playMedia() with props.feed = f, lines 122-146
PlayMedia(f) == [srcObject |-> f, paused |-> FALSE]
\* the element after stopMedia(), lines 148-159
StopMedia(el) == [el EXCEPT !.paused = TRUE]

\* the listeners after updateFeed(oldFeed, newFeed) with this.props.feed = cur, lines 101-120
UpdateFeedListeners(ls, oldFeed, newFeed, cur) ==
    IF oldFeed = newFeed THEN ls
    ELSE LET removed == IF oldFeed # Null
                        THEN RemoveListener(RemoveListener(ls, cur, NewStream),
                                            cur, MuteStateChanged)
                        ELSE ls
         IN IF newFeed # Null
            THEN AddListener(AddListener(removed, cur, NewStream), cur, MuteStateChanged)
            ELSE removed

\* the volume measurement after updateFeed(oldFeed, newFeed), lines 101-120
UpdateFeedMeasuring(ms, oldFeed, newFeed, cur) ==
    IF oldFeed = newFeed THEN ms
    ELSE LET stopped == IF oldFeed # Null THEN MeasureVolume(ms, cur, FALSE) ELSE ms
         IN IF newFeed # Null THEN MeasureVolume(stopped, cur, TRUE) ELSE stopped

\* the element after updateFeed(oldFeed, newFeed), lines 101-120
UpdateFeedElement(el, oldFeed, newFeed, cur) ==
    IF oldFeed = newFeed THEN el
    ELSE IF newFeed # Null THEN PlayMedia(cur)
    ELSE IF oldFeed # Null THEN StopMedia(el)
    ELSE el

\* componentDidMount, lines 64-67
VideoFeedDidMount ==
    /\ vfPhase = "constructed"
    /\ vfPhase' = "mounted"
    /\ vfListeners' = UpdateFeedListeners(vfListeners, Null, vfFeed, vfFeed)
    /\ vfMeasuring' = UpdateFeedMeasuring(vfMeasuring, Null, vfFeed, vfFeed)
    /\ vfElement' = PlayMedia(vfFeed)
    /\ UNCHANGED <<vfFeed, vfState, vfFeedMuted, vfPurpose>>

\* componentWillUnmount, lines 69-71
VideoFeedWillUnmount ==
    /\ vfPhase = "mounted"
    /\ vfPhase' = "unmounted"
    /\ vfListeners' = UpdateFeedListeners(vfListeners, vfFeed, Null, vfFeed)
    /\ vfMeasuring' = UpdateFeedMeasuring(vfMeasuring, vfFeed, Null, vfFeed)
    /\ vfElement' = UpdateFeedElement(vfElement, vfFeed, Null, vfFeed)
    /\ UNCHANGED <<vfFeed, vfState, vfFeedMuted, vfPurpose>>

\* the parent renders the component with another feed: getDerivedStateFromProps,
\* lines 84-89, then componentDidUpdate, lines 73-82
VideoFeedPropsChanged(feed) ==
    /\ vfPhase = "mounted"
    /\ feed # vfFeed
    /\ vfFeed' = feed
    /\ vfState' = vfFeedMuted[feed]
    /\ vfListeners' = UpdateFeedListeners(vfListeners, vfFeed, feed, feed)
    /\ vfMeasuring' = UpdateFeedMeasuring(vfMeasuring, vfFeed, feed, feed)
    /\ vfElement' = PlayMedia(feed)
    /\ UNCHANGED <<vfPhase, vfFeedMuted, vfPurpose>>

\* a feed changes its audio or video mute state and emits MuteStateChanged; a
\* registered onMuteStateChanged, lines 168-173, sets the state from props.feed and
\* componentDidUpdate, lines 73-82, plays the media when videoMuted changed
FeedMuteStateChanged(feed, field) ==
    /\ vfPhase \in {"constructed", "mounted", "unmounted"}
    /\ vfFeedMuted' = [vfFeedMuted EXCEPT ![feed][field] = ~@]
    /\ IF vfListeners[feed][MuteStateChanged] > 0 /\ vfPhase = "mounted"
       THEN /\ vfState' = vfFeedMuted'[vfFeed]
            /\ vfElement' = IF vfState'.videoMuted # vfState.videoMuted
                            THEN PlayMedia(vfFeed) ELSE vfElement
       ELSE UNCHANGED <<vfState, vfElement>>
    /\ UNCHANGED <<vfPhase, vfFeed, vfListeners, vfMeasuring, vfPurpose>>

(***************************************************************************)
(* SpaceCreateMenu  (src/src/components/views/voip/VideoFeed.tsx, 290-535) *)
(***************************************************************************)
VARIABLES
    scVisibility,  \* the visibility state: Null, Public or Private
    scBusy,        \* the busy state
    scName,        \* the name state
    scAlias,       \* the alias state
    scCall,        \* the running onSpaceCreateClick: where it is and what its closure holds
    scFocused,     \* the field focus() was last called on
    scOutcome,     \* how the validation of the last click ended
    scAliasValidated, \* the last click called validate() on the alias field
    scCreated,     \* the arguments of the last createRoom call
    scFinished     \* props.onFinished was called

scVars == <<scVisibility, scBusy, scName, scAlias, scCall, scFocused, scOutcome,
            scAliasValidated, scCreated, scFinished>>

Public == "Public"
Private == "Private"
UndefinedText == <<"<undefined>">>

\* cli.getDomain(), a server name with a port
Domain == <<"h", ":", "1">>
\* what is typed into the name field
NameInputs == {<<>>, <<"A">>, <<" ", "a", " ", " ", "b", "!">>, <<"!">>}
\* the local parts typed into the alias field
AliasInputs == {<<>>, <<"x">>}

IdleCall == [pc |-> "idle", visibility |-> Null, name |-> <<>>, alias |-> <<>>]
NoCall == [visibility |-> Null, name |-> <<>>, alias |-> <<>>, opts |-> <<>>]

\* the state of a new SpaceCreateMenu, lines 387-395
InitSpaceCreateMenu ==
    /\ scVisibility = Null
    /\ scBusy = FALSE
    /\ scName = <<>>
    /\ scAlias = <<>>
    /\ scCall = IdleCall
    /\ scFocused = "none"
    /\ scOutcome = "none"
    /\ scAliasValidated = FALSE
    /\ scCreated = NoCall
    /\ scFinished = FALSE

\* String.prototype.toLowerCase on one character
LowerChar(c) == IF c = "A" THEN "a" ELSE IF c = "B" THEN "b" ELSE c
ToLowerCase(s) == [i \in 1..Len(s) |-> LowerChar(s[i])]

\* replace(/\s+/g, "-"): every run of white space becomes one "-"
RECURSIVE DashWhitespace(_)
DashWhitespace(s) ==
    IF s = <<>> THEN <<>>
    ELSE IF Head(s) = " " THEN <<"-">> \o DashWhitespace(TrimStart(s))
    ELSE <<Head(s)>> \o DashWhitespace(Tail(s))

\* the characters /[^a-z0-9_-]+/gi leaves in place
AliasChars == {"a", "b", "x", "A", "B", "0", "1", "_", "-"}
\* replace(/[^a-z0-9_-]+/gi, "")
StripInvalid(s) == SelectSeq(s, LAMBDA c : c \in AliasChars)

\* nameToAlias, lines 305-308
NameToAlias(name, domain) ==
    <<"#">> \o StripInvalid(DashWhitespace(ToLowerCase(Trim(name)))) \o <<":">> \o domain

\* String.prototype.indexOf for one character: the 0-based place of the first, or -1
IndexOf(s, c) ==
    IF \E i \in 1..Len(s) : s[i] = c
    THEN (CHOOSE i \in 1..Len(s) : s[i] = c /\ \A j \in 1..(i - 1) : s[j] # c) - 1
    ELSE -1

\* String.prototype.substr(start, length) for start >= 0
Substr(s, start, length) ==
    IF length <= 0 THEN <<>>
    ELSE SubSeq(s, start + 1, IF start + length < Len(s) THEN start + length ELSE Len(s))

\* RoomAliasName for either visibility
RoomAliasName_AnyVisibility(visibility, alias) ==
    IF alias # <<>> THEN Substr(alias, 1, IndexOf(alias, ":") - 1) ELSE UndefinedText

\* room_alias_name of the createRoom options, lines 427-429
RoomAliasName(visibility, alias) ==
    IF visibility = Public /\ alias # <<>>
    THEN Substr(alias, 1, IndexOf(alias, ":") - 1)
    ELSE UndefinedText

\* the argument of createRoom, lines 418-438
CreateRoomOpts(visibility, name, alias) ==
    [preset |-> IF visibility = Public THEN "public_chat" ELSE "private_chat",
     name |-> name,
     power_level_content_override |->
         {<<"events_default", 100>>} \cup
         (IF visibility = Public THEN {<<"invite", 0>>} ELSE {}),
     room_alias_name |-> RoomAliasName(visibility, alias),
     roomType |-> "m.space",
     historyVisibility |-> IF visibility = Public THEN "world_readable" ELSE "invited",
     spinner |-> FALSE,
     encryption |-> FALSE,
     andView |-> TRUE,
     inlineErrors |-> TRUE]

\* spaceNameField.current: the form is rendered iff visibility is not null, lines 473-507
NameFieldMounted == scVisibility # Null /\ ~scFinished
\* spaceAliasField.current: the alias field is rendered iff showAliasField, lines 359-369, 504
AliasFieldMounted == scVisibility = Public /\ ~scFinished

\* a SpaceCreateMenuType is clicked, lines 458-469
ChooseVisibility(v) ==
    /\ ~scFinished /\ scVisibility = Null
    /\ scVisibility' = v
    /\ UNCHANGED <<scBusy, scName, scAlias, scCall, scFocused, scOutcome,
                   scAliasValidated, scCreated, scFinished>>

\* the "Go back" button, lines 475-479; busy does not disable it
GoBack ==
    /\ ~scFinished /\ scVisibility # Null
    /\ scVisibility' = Null
    /\ UNCHANGED <<scBusy, scName, scAlias, scCall, scFocused, scOutcome,
                   scAliasValidated, scCreated, scFinished>>

\* onChange of the name field, lines 347-353; busy disables the field, line 356
OnNameChange(newName) ==
    /\ NameFieldMounted /\ ~scBusy
    /\ scAlias' = IF scAlias = <<>> \/ scAlias = NameToAlias(scName, Domain)
                  THEN NameToAlias(newName, Domain) ELSE scAlias
    /\ scName' = newName
    /\ UNCHANGED <<scVisibility, scBusy, scCall, scFocused, scOutcome,
                   scAliasValidated, scCreated, scFinished>>

\* onChange of the alias field, line 362: the field reports the full alias of what
\* was typed; busy disables the field, line 367
OnAliasChange(localpart) ==
    /\ AliasFieldMounted /\ ~scBusy
    /\ scAlias' = <<"#">> \o localpart \o <<":">> \o Domain
    /\ UNCHANGED <<scVisibility, scBusy, scName, scCall, scFocused, scOutcome,
                   scAliasValidated, scCreated, scFinished>>

\* the createRoom call of a click whose closure holds call, lines 417-438
CallCreateRoom(call) ==
    /\ scCall' = [call EXCEPT !.pc = "creating"]
    /\ scOutcome' = "valid"
    /\ scCreated' = [visibility |-> call.visibility, name |-> call.name,
                     alias |-> call.alias,
                     opts |-> CreateRoomOpts(call.visibility, call.name, call.alias)]
    /\ UNCHANGED scFocused

\* a failed validation of a field, lines 404-407 and 411-414: focus() on a ref
\* that is null throws and ends the function with busy still set
ValidationFailed(call, field, mounted) ==
    /\ scOutcome' = (IF field = "name" THEN "nameInvalid" ELSE "aliasInvalid")
    /\ IF mounted
       THEN scFocused' = field /\ scBusy' = FALSE /\ scCall' = IdleCall
       ELSE scCall' = [call EXCEPT !.pc = "threw"] /\ scBusy' = TRUE /\ UNCHANGED scFocused
    /\ UNCHANGED scCreated

\* onSpaceCreateClick up to the await of the alias validation or of createRoom,
\* lines 397-417.  spaceNameValidator, lines 295-303, accepts a value that is not
\* empty and waits for nothing, so the name validation settles within the click.
OnSpaceCreateClick ==
    /\ NameFieldMounted /\ ~scBusy
    /\ scCall.pc = "idle"
    /\ LET call == [pc |-> "validatingName", visibility |-> scVisibility,
                    name |-> scName, alias |-> scAlias]
       IN IF call.name = <<>>
          THEN ValidationFailed(call, "name", NameFieldMounted) /\ scAliasValidated' = FALSE
          ELSE IF call.visibility = Public
          THEN /\ scCall' = [call EXCEPT !.pc = "validatingAlias"]
               /\ scBusy' = TRUE
               /\ scAliasValidated' = TRUE
               /\ scOutcome' = "none"
               /\ UNCHANGED <<scFocused, scCreated>>
          ELSE CallCreateRoom(call) /\ scBusy' = TRUE /\ scAliasValidated' = FALSE
    /\ UNCHANGED <<scVisibility, scName, scAlias, scFinished>>

\* the alias validation resolves, lines 410-415; an empty alias is accepted
AliasValidated(valid) ==
    /\ scCall.pc = "validatingAlias"
    /\ scCall.alias = <<>> => valid
    /\ IF valid
       THEN CallCreateRoom(scCall) /\ UNCHANGED scBusy
       ELSE ValidationFailed(scCall, "alias", AliasFieldMounted)
    /\ UNCHANGED <<scVisibility, scName, scAlias, scFinished, scAliasValidated>>

\* createRoom resolves, line 440
CreateRoomResolved ==
    /\ scCall.pc = "creating"
    /\ scFinished' = TRUE
    /\ scCall' = [scCall EXCEPT !.pc = "finished"]
    /\ UNCHANGED <<scVisibility, scBusy, scName, scAlias, scFocused, scOutcome,
                   scAliasValidated, scCreated>>

\* createRoom rejects, lines 441-443
CreateRoomRejected ==
    /\ scCall.pc = "creating"
    /\ scCall' = [scCall EXCEPT !.pc = "failed"]
    /\ UNCHANGED <<scVisibility, scBusy, scName, scAlias, scFocused, scOutcome,
                   scAliasValidated, scCreated, scFinished>>

(***************************************************************************)
(* RoomDirectory: opening a room  (src/unnamed/part_000, lines 367-482)    *)
(***************************************************************************)
VARIABLES
    isGuest,    \* MatrixClientPeg.get().isGuest()
    srLog,      \* what the last click did, in order: onFinished, dispatches, dialogs
    srClick     \* the last click: its kind and the room or alias it was made on

srVars == <<isGuest, srLog, srClick>>

ViewRoom == "view_room"
RequireRegistration == "require_registration"
UnnamedRoom == "Unnamed room"

\* the argument of showRoom when there is no room
NoRoom == [room_id |-> Null, world_readable |-> FALSE, guest_can_join |-> FALSE,
           name |-> Undefined, displayAlias |-> ""]
\* the rooms of a publicRooms chunk; displayAlias is what getDisplayAliasForRoom
\* finds in the room's canonical_alias and aliases
RoomInputs ==
    [room_id : {"!r:hs.org"}, world_readable : BOOLEAN, guest_can_join : BOOLEAN,
     name : {Undefined, "Room"}, displayAlias : {"", "#c:hs.org"}]
\* the aliases typed into the search box
SearchAliases == {"#x", "#x:other.org"}
\* alias.indexOf(':') for the aliases of SearchAliases
IndexOfColon(alias) == IF alias = "#x" THEN -1 ELSE 2
\* how the look-up of a third-party location ends, lines 377-402
LocationOutcomes == {"no fields", "found", "not found", "failed"}

NoClick == [kind |-> "none", room |-> NoRoom, alias |-> Null]
NoOobData == [present |-> FALSE, avatarUrl |-> Undefined, name |-> Undefined]

Finished(arg) == [event |-> "onFinished", arg |-> arg]
Dispatched(payload) == [event |-> "dispatch", arg |-> payload]
Dialog(title) == [event |-> "dialog", arg |-> title]
Threw == [event |-> "threw", arg |-> "TypeError"]

\* a payload with only an action
ActionOnly(action) ==
    [action |-> action, auto_join |-> Undefined, should_peek |-> Undefined,
     metricsTrigger |-> Undefined, oob_data |-> NoOobData, via_servers |-> <<>>,
     room_alias |-> Undefined, room_id |-> Undefined]

\* the state of the parts showRoom reads and of the record of its effects
InitShowRoom ==
    /\ isGuest \in BOOLEAN
    /\ srLog = <<>>
    /\ srClick = NoClick

\* getDisplayAliasForRoom, lines 761-762
GetDisplayAliasForRoom(room) == room.displayAlias

\* a || b for strings
OrElse(a, b) == IF Truthy(a) THEN a ELSE b

\* the payload showRoom builds, lines 440-479
ViewRoomPayload(room, roomAlias, autoJoin, shouldPeek) ==
    LET alias == IF room # NoRoom /\ ~Truthy(roomAlias)
                 THEN GetDisplayAliasForRoom(room) ELSE roomAlias
    IN [action |-> ViewRoom,
        auto_join |-> autoJoin,
        should_peek |-> shouldPeek,
        metricsTrigger |-> "RoomDirectory",
        oob_data |-> IF room # NoRoom
                     THEN [present |-> TRUE, avatarUrl |-> Undefined,
                           name |-> OrElse(room.name, OrElse(alias, UnnamedRoom))]
                     ELSE NoOobData,
        via_servers |-> IF room # NoRoom /\ Truthy(roomServer)
                        THEN <<roomServer>> ELSE <<>>,
        room_alias |-> IF Truthy(alias) THEN alias ELSE Undefined,
        room_id |-> IF Truthy(alias) THEN Undefined ELSE room.room_id]

\* ShowRoom without the test of what a guest may open
ShowRoom_NoGuestCheck(room, roomAlias, autoJoin, shouldPeek) ==
    <<Finished(FALSE)>> \o
    (IF room = NoRoom /\ ~Truthy(roomAlias)
     THEN <<Threw>>
     ELSE <<Dispatched(ViewRoomPayload(room, roomAlias, autoJoin, shouldPeek))>>)

\* showRoom, lines 438-482: what it does, in order
ShowRoom(room, roomAlias, autoJoin, shouldPeek) ==
    <<Finished(FALSE)>> \o
    (IF room # NoRoom /\ isGuest /\ ~room.world_readable /\ ~room.guest_can_join
     THEN <<Dispatched(ActionOnly(RequireRegistration))>>
     ELSE IF room = NoRoom /\ ~Truthy(roomAlias)
     THEN <<Threw>>
     ELSE <<Dispatched(ViewRoomPayload(room, roomAlias, autoJoin, shouldPeek))>>)

\* showRoomAlias, lines 434-436
ShowRoomAlias(alias, autoJoin) == ShowRoom(NoRoom, alias, autoJoin, FALSE)

\* onPreviewClick, lines 409-412; the button is rendered under the test of line 496
OnPreviewClick(room, hasJoinedRoom) ==
    /\ ~hasJoinedRoom /\ (room.world_readable \/ isGuest)
    /\ srLog' = ShowRoom(room, Null, FALSE, TRUE)
    /\ srClick' = [kind |-> "preview", room |-> room, alias |-> Null]
    /\ UNCHANGED isGuest

\* onViewClick, lines 414-417; the button is rendered under the test of line 503
OnViewClick(room, hasJoinedRoom) ==
    /\ hasJoinedRoom
    /\ srLog' = ShowRoom(room, Undefined, FALSE, FALSE)
    /\ srClick' = [kind |-> "view", room |-> room, alias |-> Null]
    /\ UNCHANGED isGuest

\* onJoinClick, lines 419-422; the button is rendered under the test of line 509
OnJoinClick(room, hasJoinedRoom) ==
    /\ ~hasJoinedRoom /\ ~isGuest
    /\ srLog' = ShowRoom(room, Null, TRUE, FALSE)
    /\ srClick' = [kind |-> "join", room |-> room, alias |-> Null]
    /\ UNCHANGED isGuest

\* onJoinFromSearchClick, lines 367-403; outcome: how the third-party look-up ends
OnJoinFromSearchClick(alias, outcome) ==
    /\ IF ~Truthy(instanceId) \/ instanceId = ALL_ROOMS
       THEN LET full == IF IndexOfColon(alias) = -1
                        THEN alias \o ":" \o ToStr(roomServer) ELSE alias
            IN /\ outcome = "found"
               /\ srLog' = ShowRoomAlias(full, TRUE)
               /\ srClick' = [kind |-> "search", room |-> NoRoom, alias |-> full]
       ELSE /\ srLog' = (CASE outcome = "no fields" -> <<Dialog("Unable to join network")>>
                           [] outcome = "found" -> ShowRoomAlias(alias, TRUE)
                           [] outcome = "not found" -> <<Dialog("Room not found")>>
                           [] OTHER -> <<Dialog("Fetching third party location failed")>>)
            /\ srClick' = [kind |-> "search", room |-> NoRoom, alias |-> alias]
    /\ UNCHANGED isGuest

(***************************************************************************)
(* LeftPanelLiveShareWarning                                               *)
(*   (src/src/components/views/beacon/LeftPanelLiveShareWarning.tsx)       *)
(***************************************************************************)
VARIABLES
    lwPhase,        \* "absent", "unmounted" or "mounted"
    lwIsMinimized,  \* props.isMinimized: "true", "false" or Undefined
    lwStoreFlag,    \* OwnBeaconStore.instance.isMonitoringLiveLocation
    lwValue,        \* isMonitoringLiveLocation, the state the hook keeps
    lwListeners,    \* how often the hook's handler is registered on the store
    lwRendered,     \* what the last render returned
    lwReadFlag,     \* the store's flag at mount or at the last event since
    lwEvents        \* the MonitoringLivePosition events emitted so far

lwVars == <<lwPhase, lwIsMinimized, lwStoreFlag, lwValue, lwListeners, lwRendered,
            lwReadFlag, lwEvents>>

\* the MonitoringLivePosition events of one run
MaxEvents == 4

SharingText == "You are sharing your live location"
LiveLocationIcon == "LiveLocationIcon"
MinimizedInputs == {"true", "false", Undefined}
\* render returns null
Nothing == [shown |-> FALSE, minimizedClass |-> FALSE, title |-> Undefined, child |-> Null]

\* the component function, lines 34-47, given the hook's value and the prop
Render(isMonitoringLiveLocation, isMinimized) ==
    IF ~isMonitoringLiveLocation THEN Nothing
    ELSE [shown |-> TRUE,
          minimizedClass |-> (isMinimized = "true"),
          title |-> IF isMinimized = "true" THEN SharingText ELSE Undefined,
          child |-> IF isMinimized = "true" THEN LiveLocationIcon ELSE SharingText]

\* the component is not rendered yet; the store may or may not be monitoring
InitLiveShareWarning ==
    /\ lwPhase = "unmounted"
    /\ lwIsMinimized \in MinimizedInputs
    /\ lwStoreFlag \in BOOLEAN
    /\ lwValue = FALSE
    /\ lwListeners = 0
    /\ lwRendered = Nothing
    /\ lwReadFlag = FALSE
    /\ lwEvents = 0

\* there is no LeftPanelLiveShareWarning
LiveShareWarningAbsent ==
    /\ lwPhase = "absent"
    /\ lwIsMinimized = Undefined
    /\ lwStoreFlag = FALSE
    /\ lwValue = FALSE
    /\ lwListeners = 0
    /\ lwRendered = Nothing
    /\ lwReadFlag = FALSE
    /\ lwEvents = 0

\* HookOnEvent that keeps the value read at mount
HookOnEvent_KeepsValue(value, flag) == value

\* useEventEmitterState on an event, lines 30-34: the value is read again
HookOnEvent(value, flag) == flag

\* the first render: useEventEmitterState reads the value and registers its
\* handler on the store, lines 30-34
LiveShareWarningMount ==
    /\ lwPhase = "unmounted"
    /\ lwPhase' = "mounted"
    /\ lwValue' = lwStoreFlag
    /\ lwListeners' = lwListeners + 1
    /\ lwRendered' = Render(lwValue', lwIsMinimized)
    /\ lwReadFlag' = lwStoreFlag
    /\ UNCHANGED <<lwIsMinimized, lwStoreFlag, lwEvents>>

\* the component is removed: the hook takes its handler off the store
LiveShareWarningUnmount ==
    /\ lwPhase = "mounted"
    /\ lwPhase' = "unmounted"
    /\ lwListeners' = lwListeners - 1
    /\ lwRendered' = Nothing
    /\ UNCHANGED <<lwIsMinimized, lwStoreFlag, lwValue, lwReadFlag, lwEvents>>

\* the parent renders the component with another isMinimized, lines 29, 37-47
LiveShareWarningPropsChanged(isMinimized) ==
    /\ lwPhase = "mounted"
    /\ isMinimized # lwIsMinimized
    /\ lwIsMinimized' = isMinimized
    /\ lwRendered' = Render(lwValue, isMinimized)
    /\ UNCHANGED <<lwPhase, lwStoreFlag, lwValue, lwListeners, lwReadFlag, lwEvents>>

\* the store starts or stops monitoring the live location
StoreFlagChanged ==
    /\ lwPhase # "absent"
    /\ lwStoreFlag' = ~lwStoreFlag
    /\ UNCHANGED <<lwPhase, lwIsMinimized, lwValue, lwListeners, lwRendered,
                   lwReadFlag, lwEvents>>

\* the store emits MonitoringLivePosition: a registered handler reads the value
\* again and the component renders, lines 30-47
StoreEmitsMonitoringLivePosition ==
    /\ lwPhase # "absent"
    /\ lwEvents < MaxEvents
    /\ lwEvents' = lwEvents + 1
    /\ IF lwListeners > 0
       THEN /\ lwValue' = HookOnEvent(lwValue, lwStoreFlag)
            /\ lwRendered' = Render(lwValue', lwIsMinimized)
            /\ lwReadFlag' = lwStoreFlag
       ELSE UNCHANGED <<lwValue, lwRendered, lwReadFlag>>
    /\ UNCHANGED <<lwPhase, lwIsMinimized, lwStoreFlag, lwListeners>>

(***************************************************************************)
(* Specifications: one per component; a component's specification leaves   *)
(* the other components in their initial state.                            *)
(***************************************************************************)
vars == <<rdVars, vfVars, scVars, srVars, lwVars>>

\* the components but RoomDirectory
notRoomDirectory == <<vfVars, scVars, srVars, lwVars>>

\* no room has been clicked
ShowRoomIdle == isGuest = FALSE /\ InitShowRoom

Init == InitRoomDirectory /\ VideoFeedAbsent /\ InitSpaceCreateMenu /\ ShowRoomIdle
    /\ LiveShareWarningAbsent

Next ==
    \/ /\ ComponentDidMount
       /\ UNCHANGED notRoomDirectory
    \/ /\ ComponentWillUnmount
       /\ UNCHANGED notRoomDirectory
    \/ /\ ProtocolsResolved
       /\ UNCHANGED notRoomDirectory
    \/ /\ \E guest \in BOOLEAN : ProtocolsRejected(guest)
       /\ UNCHANGED notRoomDirectory
    \/ /\ \E server \in OptionServers, inst \in OptionInstances : OnOptionChange(server, inst)
       /\ UNCHANGED notRoomDirectory
    \/ /\ \E backwards \in BOOLEAN : OnFillRequest(backwards)
       /\ UNCHANGED notRoomDirectory
    \/ /\ \E alias \in FilterInputs : OnFilterChange(alias)
       /\ UNCHANGED notRoomDirectory
    \/ /\ \E t \in timers : FilterTimerFires(t)
       /\ UNCHANGED notRoomDirectory
    \/ /\ OnFilterClear
       /\ UNCHANGED notRoomDirectory
    \/ /\ OnRoomShiftClicked
       /\ UNCHANGED notRoomDirectory
    \/ /\ RemovalFinished
       /\ UNCHANGED notRoomDirectory
    \/ /\ \E r \in BagToSet(inflight), hasChunk, hasNext \in BOOLEAN :
              PublicRoomsResolved(r, hasChunk, hasNext)
       /\ UNCHANGED notRoomDirectory
    \/ /\ \E r \in BagToSet(inflight), err \in ErrorValues : PublicRoomsRejected(r, err)
       /\ UNCHANGED notRoomDirectory


Spec == Init /\ [][Next]_vars

\* the components but VideoFeed
notVideoFeed == <<rdVars, scVars, srVars, lwVars>>

\* no RoomDirectory has been constructed
RoomDirectoryAbsent ==
    /\ hasClient = FALSE
    /\ localStorage = (LAST_SERVER_KEY :> Null) @@ (LAST_INSTANCE_KEY :> Null)
    /\ filterString = <<>>
    /\ InitRoomDirectory

InitVF == InitVideoFeed /\ RoomDirectoryAbsent /\ InitSpaceCreateMenu /\ ShowRoomIdle
    /\ LiveShareWarningAbsent

NextVF ==
    \/ /\ VideoFeedDidMount
       /\ UNCHANGED notVideoFeed
    \/ /\ VideoFeedWillUnmount
       /\ UNCHANGED notVideoFeed
    \/ /\ \E feed \in Feeds : VideoFeedPropsChanged(feed)
       /\ UNCHANGED notVideoFeed
    \/ /\ \E feed \in Feeds, field \in {"audioMuted", "videoMuted"} :
              FeedMuteStateChanged(feed, field)
       /\ UNCHANGED notVideoFeed


SpecVideoFeed == InitVF /\ [][NextVF]_vars

\* the components but SpaceCreateMenu
notSpaceCreateMenu == <<rdVars, vfVars, srVars, lwVars>>

InitSC == InitSpaceCreateMenu /\ RoomDirectoryAbsent /\ VideoFeedAbsent /\ ShowRoomIdle
    /\ LiveShareWarningAbsent

NextSC ==
    \/ /\ \E v \in {Public, Private} : ChooseVisibility(v)
       /\ UNCHANGED notSpaceCreateMenu
    \/ /\ GoBack
       /\ UNCHANGED notSpaceCreateMenu
    \/ /\ \E newName \in NameInputs : OnNameChange(newName)
       /\ UNCHANGED notSpaceCreateMenu
    \/ /\ \E localpart \in AliasInputs : OnAliasChange(localpart)
       /\ UNCHANGED notSpaceCreateMenu
    \/ /\ OnSpaceCreateClick
       /\ UNCHANGED notSpaceCreateMenu
    \/ /\ \E valid \in BOOLEAN : AliasValidated(valid)
       /\ UNCHANGED notSpaceCreateMenu
    \/ /\ CreateRoomResolved
       /\ UNCHANGED notSpaceCreateMenu
    \/ /\ CreateRoomRejected
       /\ UNCHANGED notSpaceCreateMenu

SpecSpaceCreateMenu == InitSC /\ [][NextSC]_vars

\* the components but the room directory's opening of rooms
notShowRoom == <<rdVars, vfVars, scVars, lwVars>>

\* a mounted RoomDirectory with a list to click on: the selected server and instance
\* are any, the rest is as after construction
InitSR ==
    /\ InitShowRoom /\ VideoFeedAbsent /\ InitSpaceCreateMenu /\ LiveShareWarningAbsent
    /\ hasClient = TRUE
    /\ localStorage = (LAST_SERVER_KEY :> Null) @@ (LAST_INSTANCE_KEY :> Null)
    /\ filterString = <<>>
    /\ publicRooms = <<>>
    /\ loading = FALSE
    /\ error = Null
    /\ instanceId \in {Null, ALL_ROOMS, "irc"}
    /\ roomServer \in {Null, MyHomeserver, "other.org"}
    /\ protocolsLoading = FALSE /\ protocolsPending = FALSE
    /\ unmounted = FALSE /\ didMount = TRUE
    /\ nextBatch = Null
    /\ filterTimeout = TimeoutUndefined
    /\ timers = {}
    /\ inflight = EmptyBag
    /\ sent = 0
    /\ lastResult = NoResult
    /\ lastOption = NoOption
    /\ removalPending = FALSE

NextSR ==
    \/ /\ \E room \in RoomInputs, hasJoinedRoom \in BOOLEAN :
              OnPreviewClick(room, hasJoinedRoom)
       /\ UNCHANGED notShowRoom
    \/ /\ \E room \in RoomInputs, hasJoinedRoom \in BOOLEAN :
              OnViewClick(room, hasJoinedRoom)
       /\ UNCHANGED notShowRoom
    \/ /\ \E room \in RoomInputs, hasJoinedRoom \in BOOLEAN :
              OnJoinClick(room, hasJoinedRoom)
       /\ UNCHANGED notShowRoom
    \/ /\ \E alias \in SearchAliases, outcome \in LocationOutcomes :
              OnJoinFromSearchClick(alias, outcome)
       /\ UNCHANGED notShowRoom

SpecShowRoom == InitSR /\ [][NextSR]_vars

\* the components but LeftPanelLiveShareWarning
notLiveShareWarning == <<rdVars, vfVars, scVars, srVars>>

InitLW ==
    /\ InitLiveShareWarning
    /\ RoomDirectoryAbsent /\ VideoFeedAbsent /\ InitSpaceCreateMenu /\ ShowRoomIdle

NextLW ==
    \/ /\ LiveShareWarningMount
       /\ UNCHANGED notLiveShareWarning
    \/ /\ LiveShareWarningUnmount
       /\ UNCHANGED notLiveShareWarning
    \/ /\ \E isMinimized \in MinimizedInputs : LiveShareWarningPropsChanged(isMinimized)
       /\ UNCHANGED notLiveShareWarning
    \/ /\ StoreFlagChanged
       /\ UNCHANGED notLiveShareWarning
    \/ /\ StoreEmitsMonitoringLivePosition
       /\ UNCHANGED notLiveShareWarning

SpecLiveShareWarning == InitLW /\ [][NextLW]_vars

(***************************************************************************)
(* Claims about RoomDirectory                                              *)
(***************************************************************************)
\* the requests a step completes: those with fewer copies in flight after it
Completed(r) == CopiesIn(r, inflight') < CopiesIn(r, inflight)

\* two tokens or server names differ; null and undefined both say "none"
Differs(a, b) == ~(a \in {Null, Undefined} /\ b \in {Null, Undefined}) /\ a # b

\* the request's captured filterString, roomServer or nextBatch differs from the current one
CapturedDiffers(r) ==
    \/ r.filterString # filterString
    \/ Differs(r.roomServer, roomServer)
    \/ Differs(r.nextBatch, nextBatch)

\* C1: when a publicRooms request completes (resolved or rejected) and the
\* filterString, roomServer or nextBatch token it captured differs from the
\* current one, publicRooms, nextBatch, loading and error are left unchanged
\* and the promise resolves to false.
C1_StaleCompletionDiscarded ==
    [][\A r \in BagToSet(inflight) :
           (Completed(r) /\ CapturedDiffers(r)) =>
               /\ UNCHANGED <<publicRooms, nextBatch, loading, error>>
               /\ lastResult'.value = "false"]_vars

\* C1 witness: a completion was thrown away as stale while a list is shown
C1_Witness ==
    /\ lastResult = Result("false", "stale")
    /\ publicRooms # <<>>
    /\ ~unmounted

\* a step of onFilterChange: it arms a timer that was not armed before
ArmsTimer == timers' \ timers # {}
\* a step of the timer's callback: it puts null where a handle was
TimerFired == filterTimeout' = TimeoutNull /\ filterTimeout # TimeoutNull

\* C2: at most one filter timer is pending, it is the one this.filterTimeout
\* names and it was armed by the call that set the current filterString;
\* onFilterChange sets filterString and sends no request; the timer's callback
\* does one refresh, whose request (when there is a client) carries the filter
\* string of the last onFilterChange.
C2_SearchDebounce ==
    /\ [](/\ Cardinality(timers) <= 1
          /\ \A t \in timers : t.id = filterTimeout /\ t.armedWith = filterString)
    /\ [][/\ ArmsTimer =>
                (/\ UNCHANGED <<inflight, sent, publicRooms, nextBatch>>
                 /\ \A t \in timers' : t.armedWith = filterString')
          /\ TimerFired =>
                /\ timers' = {}
                /\ publicRooms' = <<>> /\ nextBatch' = Null
                /\ \A t \in timers :
                       IF hasClient
                       THEN /\ sent' = sent + 1
                            /\ \E r \in BagToSet(inflight') :
                                   /\ inflight' = inflight (+) SetToBag({r})
                                   /\ r.filterString = t.armedWith
                                   /\ r.opts.filter =
                                          (IF t.armedWith = <<>> THEN NullText ELSE t.armedWith)
                       ELSE UNCHANGED <<inflight, sent>>]_vars

\* C2 witness: the timer has fired and its refresh, for a filter typed into the
\* search box, is in flight
C2_Witness ==
    /\ filterTimeout = TimeoutNull
    /\ filterString = <<"a">>
    /\ timers = {}
    /\ \E r \in BagToSet(inflight) : r.filterString = <<"a">> /\ r.nextBatch = Null

\* the directory listing a room belongs to: the request options but the page token
ListingOf(room) ==
    <<room.opts.server, room.opts.include_all_networks,
      room.opts.third_party_instance_id, room.opts.filter>>

\* C3: publicRooms is the in-order concatenation of chunks of one chain of pages
\* of one listing, and no page's chunk is in it twice.
C3_PaginationIntegrity ==
    \A i, j \in 1..Len(publicRooms) :
        /\ ListingOf(publicRooms[i]) = ListingOf(publicRooms[j])
        /\ i < j => PageOf(publicRooms[i].opts.since) < PageOf(publicRooms[j].opts.since)

\* the instance a request asked for: ALL_ROOMS, an instance id, or none
InstanceOfOpts(opts) ==
    IF opts.include_all_networks THEN ALL_ROOMS ELSE opts.third_party_instance_id

\* C7: after an onOptionChange call the selected server and instance are the
\* chosen ones, localStorage holds the server and holds the instance id when it
\* is truthy and no instance key otherwise (never the string "undefined"); the
\* call clears nextBatch, publicRooms and error and does exactly one refresh.
C7_OptionChange ==
    /\ [](lastOption # NoOption =>
             /\ roomServer = lastOption.server
             /\ instanceId = lastOption.instanceId
             /\ localStorage[LAST_SERVER_KEY] = lastOption.server
             /\ localStorage[LAST_INSTANCE_KEY] =
                    (IF Truthy(lastOption.instanceId) THEN lastOption.instanceId ELSE Null)
             /\ localStorage[LAST_INSTANCE_KEY] # "undefined")
    /\ [][lastOption' # lastOption =>
             /\ nextBatch' = Null /\ publicRooms' = <<>> /\ error' = Null
             /\ loading' = TRUE
             /\ IF hasClient
                THEN /\ sent' = sent + 1
                     /\ \E r \in BagToSet(inflight') :
                            /\ inflight' = inflight (+) SetToBag({r})
                            /\ r.roomServer = lastOption'.server
                            /\ r.nextBatch = Null
                            /\ ~Differs(InstanceOfOpts(r.opts), lastOption'.instanceId)
                ELSE UNCHANGED <<inflight, sent>>]_vars

\* C7 witness: an option without an instance id was chosen over a stored one
C7_Witness ==
    /\ lastOption # NoOption
    /\ lastOption.instanceId = Undefined
    /\ localStorage[LAST_INSTANCE_KEY] = Null
    /\ \E r \in BagToSet(inflight) : r.roomServer = lastOption.server

\* C10 (its "in particular"): every room in publicRooms came from a request sent
\* for the currently selected roomServer and instanceId.
C10_ShownForSelectedInstance ==
    \A i \in 1..Len(publicRooms) :
        /\ ~Differs(publicRooms[i].roomServer, roomServer)
        /\ ~Differs(InstanceOfOpts(publicRooms[i].opts),
                    IF Truthy(instanceId) THEN instanceId ELSE Undefined)
(***************************************************************************)
(* Claims about VideoFeed                                                  *)
(***************************************************************************)
\* C4: while the component is mounted its NewStream and MuteStateChanged
\* handlers are registered exactly once on props.feed and on no other feed; after
\* unmount they are registered on no feed.
C4_ListenerPairing ==
    /\ vfPhase = "mounted" =>
           \A f \in Feeds, ev \in {NewStream, MuteStateChanged} :
               vfListeners[f][ev] = (IF f = vfFeed THEN 1 ELSE 0)
    /\ vfPhase = "unmounted" =>
           \A f \in Feeds, ev \in {NewStream, MuteStateChanged} : vfListeners[f][ev] = 0

(***************************************************************************)
(* Claims about SpaceCreateMenu                                            *)
(***************************************************************************)
\* a step in which onSpaceCreateClick calls createRoom
CreateRoomCalled == scCall'.pc = "creating" /\ scCall.pc # "creating"
\* the validation of the last click failed on the named field
ValidationFailedOn(field) == scOutcome = field \o "Invalid"

\* C5: createRoom is called only after the name validated as non-empty and, for
\* Public, the alias field validated; when a validation fails createRoom and
\* onFinished are not called, the failing field is focused and busy is set back
\* to false; the alias field is never validated for Private.
C5_ValidationControlFlow ==
    /\ [](\A field \in {"name", "alias"} :
             ValidationFailedOn(field) =>
                 /\ scFocused = field
                 /\ scBusy = FALSE
                 /\ scCall.pc \notin {"creating", "finished", "failed"})
    /\ [](scCall.visibility = Private => ~scAliasValidated)
    /\ [][/\ CreateRoomCalled =>
                (/\ scCall'.name # <<>>
                 /\ scCall'.visibility = Public => scCall.pc = "validatingAlias")
          /\ (\E field \in {"name", "alias"} : ValidationFailedOn(field)') =>
                (/\ ~CreateRoomCalled
                 /\ scCreated' = scCreated
                 /\ ~scFinished')]_vars

\* the text between the leading "#" and the first ":" of an alias
IsLocalpartOf(localpart, alias) ==
    /\ \A i \in 1..Len(localpart) : localpart[i] # ":"
    /\ \E rest \in {SubSeq(alias, i, Len(alias)) : i \in 1..(Len(alias) + 1)} :
           alias = <<"#">> \o localpart \o <<":">> \o rest

\* C6: a createRoom call for Public has preset public_chat, history visibility
\* world_readable, invite 0 and room_alias_name the alias text between "#" and
\* the first ":" (undefined for an empty alias); for Private it has preset
\* private_chat, history visibility invited, no invite override and
\* room_alias_name undefined whatever the alias; always events_default is 100,
\* roomType is Space and encryption is false.
C6_CreateRoomOptions ==
    scCreated # NoCall =>
        LET o == scCreated.opts
            a == scCreated.alias
        IN /\ <<"events_default", 100>> \in o.power_level_content_override
           /\ o.roomType = "m.space"
           /\ o.encryption = FALSE
           /\ scCreated.visibility = Public =>
                /\ o.preset = "public_chat"
                /\ o.historyVisibility = "world_readable"
                /\ o.power_level_content_override =
                       {<<"events_default", 100>>, <<"invite", 0>>}
                /\ IF a = <<>> THEN o.room_alias_name = UndefinedText
                   ELSE IsLocalpartOf(o.room_alias_name, a)
           /\ scCreated.visibility = Private =>
                /\ o.preset = "private_chat"
                /\ o.historyVisibility = "invited"
                /\ o.power_level_content_override = {<<"events_default", 100>>}
                /\ o.room_alias_name = UndefinedText

\* C6 witness: a private space was created while the alias state was not empty,
\* and the name had given a local part
C6_Witness ==
    /\ scCreated.visibility = Private
    /\ scCreated.alias = <<"#", "a", "-", "b", ":">> \o Domain
    /\ scCreated.opts.room_alias_name = UndefinedText

(***************************************************************************)
(* Claims about RoomDirectory.showRoom                                     *)
(***************************************************************************)
\* the payload carries room_alias and no room_id
CarriesAliasOnly(p, alias) == p.room_alias = alias /\ p.room_id = Undefined
\* the payload carries room_id and no room_alias
CarriesIdOnly(p, id) == p.room_id = id /\ p.room_alias = Undefined

\* C8: showRoom calls props.onFinished(false) and then dispatches exactly one
\* action: require_registration for a guest and a room that is neither
\* world_readable nor guest_can_join, otherwise a ViewRoom payload that carries
\* room_alias alone (an alias was given or the room has a display alias) or
\* room_id alone; Join has auto_join and no should_peek, Preview has should_peek
\* and no auto_join, View has neither.
C8_ShowRoomDispatch ==
    (srLog # <<>> /\ srLog[1].event = "onFinished") =>
        /\ Len(srLog) = 2
        /\ srLog[1] = Finished(FALSE)
        /\ srLog[2].event = "dispatch"
        /\ LET p == srLog[2].arg
               room == srClick.room
           IN IF room # NoRoom /\ isGuest /\ ~room.world_readable /\ ~room.guest_can_join
              THEN p.action = RequireRegistration
              ELSE /\ p.action = ViewRoom
                   /\ IF srClick.alias # Null
                      THEN CarriesAliasOnly(p, srClick.alias)
                      ELSE IF GetDisplayAliasForRoom(room) # ""
                      THEN CarriesAliasOnly(p, GetDisplayAliasForRoom(room))
                      ELSE CarriesIdOnly(p, room.room_id)
                   /\ p.auto_join = (srClick.kind \in {"join", "search"})
                   /\ p.should_peek = (srClick.kind = "preview")

\* C8 witness: a guest previews a world-readable room that has no alias
C8_Witness ==
    /\ isGuest
    /\ srClick.kind = "preview"
    /\ srClick.room.world_readable /\ ~srClick.room.guest_can_join
    /\ Len(srLog) = 2
    /\ srLog[2].event = "dispatch"
    /\ srLog[2].arg.action = ViewRoom
    /\ srLog[2].arg.room_id = "!r:hs.org"
    /\ srLog[2].arg.should_peek = TRUE

(***************************************************************************)
(* Claims about LeftPanelLiveShareWarning                                  *)
(***************************************************************************)
\* C9: the mounted component shows the warning iff the store's
\* isMonitoringLiveLocation was true when it was last read, at mount or at the
\* last MonitoringLivePosition event since; shown minimized it renders the icon
\* with the text as title, otherwise the text with no title.
C9_LiveShareWarningRender ==
    lwPhase = "mounted" =>
        /\ lwRendered.shown = lwReadFlag
        /\ ~lwRendered.shown => lwRendered = Nothing
        /\ lwRendered.shown =>
               IF lwIsMinimized = "true"
               THEN lwRendered.child = LiveLocationIcon /\ lwRendered.title = SharingText
               ELSE lwRendered.child = SharingText /\ lwRendered.title = Undefined

\* C9 witness: after two events, with the store monitoring, the warning is shown
\* minimized
C9_Witness ==
    /\ lwPhase = "mounted"
    /\ lwEvents >= 2
    /\ lwStoreFlag
    /\ lwRendered.shown
    /\ lwRendered.child = LiveLocationIcon

(***************************************************************************)
(* Further claims about RoomDirectory                                      *)
(***************************************************************************)
\* every publicRooms request that was issued has completed, at least one was
\* issued, no filter timer is pending and the component is mounted
AllRequestsCompleted ==
    /\ didMount /\ ~unmounted
    /\ sent > 0
    /\ inflight = EmptyBag
    /\ timers = {}

\* C11: a stale response that is discarded leaves loading as it is, and once
\* every issued publicRooms request has completed and no filter timer is pending,
\* with the component still mounted, loading is false.
C11_LoadingSettles ==
    /\ [](AllRequestsCompleted => loading = FALSE)
    /\ [][\A r \in BagToSet(inflight) :
                Completed(r) /\ IsStale(r) => loading' = loading]_vars


\* the request is one more publicRooms call in flight after the step
NewlySent(r) == CopiesIn(r, inflight') > CopiesIn(r, inflight)

\* C12: onFillRequest sends a publicRooms request only for a forwards fill with
\* a nextBatch token, and the request carries since equal to that token; for a
\* backwards fill or without a token it resolves to false and sends nothing.
\* getMoreRooms resolves to true only when the response was applied and held a
\* next_batch.
C12_FillRequest ==
    /\ [][\A backwards \in BOOLEAN :
            OnFillRequest(backwards) =>
                IF backwards \/ nextBatch \in {Null, Undefined}
                THEN (lastResult' = Result("false", "fill") /\ UNCHANGED <<inflight, sent>>)
                ELSE (\E r \in BagToSet(inflight') :
                         /\ inflight' = inflight (+) SetToBag({r})
                         /\ sent' = sent + 1
                         /\ r.opts.since = nextBatch)]_vars
    /\ [][\A r \in BagToSet(inflight') :
            NewlySent(r) /\ r.opts.since # Undefined =>
                (r.opts.since = nextBatch /\ nextBatch \notin {Null, Undefined}
                 /\ UNCHANGED <<nextBatch, publicRooms>>)]_vars
    /\ [][\A r \in BagToSet(inflight) :
            Completed(r) /\ lastResult'.value = "true" =>
                (/\ ~unmounted /\ ~CapturedDiffers(r)
                 /\ loading' = FALSE
                 /\ Len(publicRooms') >= Len(publicRooms)
                 /\ nextBatch' = Token(PageOf(r.opts.since))
                 /\ nextBatch' \notin {Null, Undefined})]_vars

\* a fill request for the page after the shown ones is in flight, and a later
\* backwards fill was refused
C12_Witness ==
    /\ lastResult = Result("false", "fill")
    /\ \E r \in BagToSet(inflight) :
           r.opts.since = nextBatch /\ nextBatch \notin {Null, Undefined}

\* the text the failure is to be reported with: the brand text followed by the
\* error's message when it has one, otherwise by the homeserver text
ExpectedErrorText(err) ==
    PublicRoomsFailed \o
        (IF ~err.isNullish /\ Truthy(err.message) THEN err.message ELSE HomeserverUnavailable)

\* C13: when a publicRooms request that is not stale fails while the component
\* is mounted, loading becomes false and error becomes the brand text followed
\* by the error's message, or by the homeserver text when it has none, whatever
\* the error value is.
C13_FailedRequestError ==
    [][\A r \in BagToSet(inflight), err \in ErrorValues :
          PublicRoomsRejected(r, err) /\ ~IsStale(r) /\ ~unmounted =>
              (loading' = FALSE /\ error' = ExpectedErrorText(err))]_vars
====
